---------------------------- MODULE Spec2Model ----------------------------
(***************************************************************************)
(* A model of src/cmd.rs of ceph-rust: the typed administrative commands   *)
(* built as JSON command descriptors, sent through                         *)
(* ceph_mon_command_without_data and parsed from the first line of the     *)
(* reply.                                                                  *)
(*                                                                         *)
(* Texts are TLA+ strings; TLC evaluates Len, SubSeq, Head, Tail and \o on *)
(* them, so line splitting, integer parsing and JSON decoding are computed *)
(* character by character.  A u64 does not fit TLC's integers: a parsed    *)
(* u64 is represented by its canonical decimal numeral.                    *)
(***************************************************************************)
EXTENDS Integers, Sequences, FiniteSets, TLC

VARIABLES
    pc,        \* position of the call: Idle, Dispatched, Returned, Succeeded, Failed, Simulated
    op,        \* name of the function of cmd.rs being called ("" when idle)
    args,      \* its parameters
    cmd,       \* the command descriptor built by json!
    calls,     \* number of times the call invoked ceph_mon_command_without_data
    reply,     \* what ceph_mon_command_without_data returned
    result,    \* what the call returned
    vocab,     \* the wire-vocabulary value under conversion (enumeration, variant, token)
    waiting    \* the locals of a call made on another thread, while that thread does not run

vars == <<pc, op, args, cmd, calls, reply, result, vocab, waiting>>

---------------------------------------------------------------------------
(* Option<String>                                                          *)

None == [some |-> FALSE, v |-> ""]

Some(s) == [some |-> TRUE, v |-> s]

\* Option::unwrap_or
unwrap_or(o, default) == IF o.some THEN o.v ELSE default

---------------------------------------------------------------------------
(* Characters and strings                                                  *)

\* the i-th character of s, "" past either end
Ch(s, i) == IF i >= 1 /\ i <= Len(s) THEN SubSeq(s, i, i) ELSE ""

Digits == {"0", "1", "2", "3", "4", "5", "6", "7", "8", "9"}

DigitVal(c) ==
    CASE c = "0" -> 0 [] c = "1" -> 1 [] c = "2" -> 2 [] c = "3" -> 3
      [] c = "4" -> 4 [] c = "5" -> 5 [] c = "6" -> 6 [] c = "7" -> 7
      [] c = "8" -> 8 [] c = "9" -> 9

\* index of the first character of s at or after i whose membership in set is
\* `member`, 0 if there is none; the text is searched sixteen characters at a time
RECURSIVE FirstWhere(_, _, _, _)
FirstWhere(s, set, member, i) ==
    IF i > Len(s) THEN 0
    ELSE LET hi == IF i + 15 < Len(s) THEN i + 15 ELSE Len(s)
             hits == {j \in i..hi : (SubSeq(s, j, j) \in set) = member}
         IN IF hits # {} THEN CHOOSE j \in hits : \A k \in hits : j <= k
            ELSE FirstWhere(s, set, member, hi + 1)

\* index of the first occurrence of character c in s at or after i, 0 if none
IndexOf(s, c, i) == FirstWhere(s, {c}, TRUE, i)

\* literal p stands in s at position i
LitAt(s, i, p) == i >= 1 /\ i + Len(p) - 1 <= Len(s) /\ SubSeq(s, i, i + Len(p) - 1) = p

StartsWith(s, p) == Len(p) <= Len(s) /\ SubSeq(s, 1, Len(p)) = p

EndsWith(s, p) == Len(p) <= Len(s) /\ SubSeq(s, Len(s) - Len(p) + 1, Len(s)) = p

Contains(s, p) == \E i \in 1..(Len(s) - Len(p) + 1) : SubSeq(s, i, i + Len(p) - 1) = p

\* char::escape_debug as used by <str as Debug>::fmt
EscapeDebugChar(c) ==
    CASE c = "\n" -> "\\n"
      [] c = "\r" -> "\\r"
      [] c = "\t" -> "\\t"
      [] c = "\"" -> "\\\""
      [] c = "\\" -> "\\\\"
      [] OTHER -> c

\* the characters of s from i to j, each escaped (halving keeps the nesting shallow)
RECURSIVE EscapeDebug(_, _, _)
EscapeDebug(s, i, j) ==
    IF i > j THEN ""
    ELSE IF i = j THEN EscapeDebugChar(SubSeq(s, i, i))
    ELSE EscapeDebug(s, i, (i + j) \div 2) \o EscapeDebug(s, (i + j) \div 2 + 1, j)

\* format!("{:?}", s) for a String
DebugStr(s) == "\"" \o EscapeDebug(s, 1, Len(s)) \o "\""

\* format!("{:?}", o) for an Option<String>
DebugOpt(o) == IF o.some THEN "Some(" \o DebugStr(o.v) \o ")" ELSE "None"

\* format!("{:?}", result) for the (Option<String>, Option<String>) reply
DebugReply(primary, secondary) ==
    "(" \o DebugOpt(primary) \o ", " \o DebugOpt(secondary) \o ")"

---------------------------------------------------------------------------
(* str::lines: split after every "\n", drop that "\n" and a "\r" before it *)

StripLineEnding(piece) ==
    IF EndsWith(piece, "\r\n") THEN SubSeq(piece, 1, Len(piece) - 2)
    ELSE IF EndsWith(piece, "\n") THEN SubSeq(piece, 1, Len(piece) - 1)
    ELSE piece

RECURSIVE lines(_)
lines(s) ==
    IF s = "" THEN << >>
    ELSE LET k == IndexOf(s, "\n", 1) IN
         IF k = 0 THEN << StripLineEnding(s) >>
         ELSE << StripLineEnding(SubSeq(s, 1, k)) >> \o lines(SubSeq(s, k + 1, Len(s)))

\* an iterator that yields an empty line when there is none
next_or_blank(l) == IF l = << >> THEN Some("") ELSE Some(Head(l))

\* an iterator read from its far end
next_back(l) == IF l = << >> THEN None ELSE Some(l[Len(l)])

\* Iterator::next on a fresh lines() iterator
next(l) == IF l = << >> THEN None ELSE Some(Head(l))

---------------------------------------------------------------------------
(* u64::from_str                                                           *)

U64Max == "18446744073709551615"

\* a < b for two digit strings of the same length
RECURSIVE NumeralLess(_, _, _)
NumeralLess(a, b, i) ==
    IF i > Len(a) THEN FALSE
    ELSE IF DigitVal(SubSeq(a, i, i)) < DigitVal(SubSeq(b, i, i)) THEN TRUE
    ELSE IF DigitVal(SubSeq(a, i, i)) > DigitVal(SubSeq(b, i, i)) THEN FALSE
    ELSE NumeralLess(a, b, i + 1)

\* canonical numerals: a > max
Exceeds(a, max) == Len(a) > Len(max) \/ (Len(a) = Len(max) /\ NumeralLess(max, a, 1))

\* result * 10 + x on canonical numerals
MulAdd(acc, c) == IF acc = "0" THEN c ELSE acc \o c

\* the digit loop of from_str_radix: an invalid digit and an overflow are
\* reported at the first character where they occur
RECURSIVE ParseDigits(_, _, _, _)
ParseDigits(s, i, acc, max) ==
    IF i > Len(s) THEN [ok |-> TRUE, n |-> acc, kind |-> ""]
    ELSE LET c == SubSeq(s, i, i) IN
         IF c \notin Digits THEN [ok |-> FALSE, n |-> "", kind |-> "InvalidDigit"]
         ELSE IF Exceeds(MulAdd(acc, c), max) THEN [ok |-> FALSE, n |-> "", kind |-> "PosOverflow"]
         ELSE ParseDigits(s, i + 1, MulAdd(acc, c), max)

\* a reader that takes every non-numeric line for zero
u64_from_str_or_zero(s) ==
    LET r == ParseDigits(s, 1, "0", U64Max) IN
    IF s = "" THEN [ok |-> FALSE, n |-> "", kind |-> "Empty"]
    ELSE IF r.kind = "InvalidDigit" THEN [ok |-> TRUE, n |-> "0", kind |-> ""]
    ELSE r

u64_from_str(s) ==
    IF s = "" THEN [ok |-> FALSE, n |-> "", kind |-> "Empty"]
    ELSE IF s \in {"+", "-"} THEN [ok |-> FALSE, n |-> "", kind |-> "InvalidDigit"]
    ELSE IF Ch(s, 1) = "+" THEN ParseDigits(s, 2, "0", U64Max)
    ELSE ParseDigits(s, 1, "0", U64Max)

---------------------------------------------------------------------------
(* serde_json::Value, as built by json! and as read from a reply           *)

JNull == [t |-> "null"]

JBool(b) == [t |-> "bool", b |-> b]

JStr(s) == [t |-> "str", s |-> s]

\* a number: sign, canonical integer digits, and whether it has a fraction or
\* an exponent (text holds them as written)
JNum(neg, int, float, text) == [t |-> "num", neg |-> neg, int |-> int, float |-> float, text |-> text]

\* the number json! makes of a u64 parameter
JU64(n) == JNum(FALSE, ToString(n), FALSE, ToString(n))

\* the number json! makes of an f64 parameter, given by its decimal text
JF64(text) == JNum(FALSE, "0", TRUE, text)

JArr(items) == [t |-> "arr", items |-> items]

\* members: a sequence of [k, v] in the order read
JObj(members) == [t |-> "obj", members |-> members]

Member(k, v) == [k |-> k, v |-> v]

---------------------------------------------------------------------------
(* serde_json::from_str: the JSON reader                                   *)

JsonWs == {" ", "\t", "\n", "\r"}

SkipWs(s, i) ==
    LET j == FirstWhere(s, JsonWs, FALSE, i) IN IF j = 0 THEN Len(s) + 1 ELSE j

Fail == [ok |-> FALSE, v |-> JNull, i |-> 0]

Got(v, i) == [ok |-> TRUE, v |-> v, i |-> i]

\* the characters a backslash may introduce (no \u escapes in the replies modelled)
Unescape(c) ==
    CASE c = "\"" -> "\""
      [] c = "\\" -> "\\"
      [] c = "/" -> "/"
      [] c = "n" -> "\n"
      [] c = "r" -> "\r"
      [] c = "t" -> "\t"
      [] OTHER -> ""

\* s[i] is the character after the opening quote: the text up to the next
\* quote, backslash or control character is taken as it is
RECURSIVE ParseStringBody(_, _, _)
ParseStringBody(s, i, acc) ==
    LET stop == FirstWhere(s, {"\"", "\\", "\n", "\r", "\t"}, TRUE, i)
        c == Ch(s, stop)
        run == acc \o SubSeq(s, i, stop - 1)
    IN
    IF stop = 0 THEN Fail
    ELSE IF c = "\"" THEN Got(JStr(run), stop + 1)
    ELSE IF c = "\\"
         THEN IF Unescape(Ch(s, stop + 1)) = "" THEN Fail
              ELSE ParseStringBody(s, stop + 2, run \o Unescape(Ch(s, stop + 1)))
    ELSE Fail

\* the end of the run of digits starting at i
SkipDigits(s, i) ==
    LET j == FirstWhere(s, Digits, FALSE, i) IN IF j = 0 THEN Len(s) + 1 ELSE j

\* digits without leading zeros
RECURSIVE Canonical(_)
Canonical(d) == IF Len(d) > 1 /\ Ch(d, 1) = "0" THEN Canonical(Tail(d)) ELSE d

ParseNumber(s, i) ==
    LET neg == Ch(s, i) = "-"
        a == IF neg THEN i + 1 ELSE i
        b == SkipDigits(s, a)
        hasFrac == Ch(s, b) = "."
        c == IF hasFrac THEN SkipDigits(s, b + 1) ELSE b
        hasExp == Ch(s, c) \in {"e", "E"}
        d == IF hasExp /\ Ch(s, c + 1) \in {"+", "-"} THEN c + 2 ELSE c + 1
        e == IF hasExp THEN SkipDigits(s, d) ELSE c
    IN
    IF b = a THEN Fail
    ELSE IF Ch(s, a) = "0" /\ b > a + 1 THEN Fail
    ELSE IF hasFrac /\ c = b + 1 THEN Fail
    ELSE IF hasExp /\ e = d THEN Fail
    ELSE Got(JNum(neg, SubSeq(s, a, b - 1), hasFrac \/ hasExp, SubSeq(s, i, e - 1)), e)

RECURSIVE ParseValue(_, _), ParseElements(_, _, _), ParseMembers(_, _, _)
ParseValue(s, i) ==
    CASE Ch(s, i) = "\"" -> ParseStringBody(s, i + 1, "")
      [] Ch(s, i) = "[" ->
            IF Ch(s, SkipWs(s, i + 1)) = "]" THEN Got(JArr(<< >>), SkipWs(s, i + 1) + 1)
            ELSE ParseElements(s, SkipWs(s, i + 1), << >>)
      [] Ch(s, i) = "{" ->
            IF Ch(s, SkipWs(s, i + 1)) = "}" THEN Got(JObj(<< >>), SkipWs(s, i + 1) + 1)
            ELSE ParseMembers(s, SkipWs(s, i + 1), << >>)
      [] Ch(s, i) = "-" \/ Ch(s, i) \in Digits -> ParseNumber(s, i)
      [] LitAt(s, i, "true") -> Got(JBool(TRUE), i + 4)
      [] LitAt(s, i, "false") -> Got(JBool(FALSE), i + 5)
      [] LitAt(s, i, "null") -> Got(JNull, i + 4)
      [] OTHER -> Fail

\* r is what reading an element gave: a comma and the next element follow,
\* or the closing bracket
ElementEnd(s, r, acc) ==
    CASE ~r.ok -> Fail
      [] Ch(s, SkipWs(s, r.i)) = "," ->
            ParseElements(s, SkipWs(s, SkipWs(s, r.i) + 1), Append(acc, r.v))
      [] Ch(s, SkipWs(s, r.i)) = "]" -> Got(JArr(Append(acc, r.v)), SkipWs(s, r.i) + 1)
      [] OTHER -> Fail

ParseElements(s, i, acc) == ElementEnd(s, ParseValue(s, i), acc)

\* the key of a member: a string
MemberKey(s, i) == IF Ch(s, i) = "\"" THEN ParseStringBody(s, i + 1, "") ELSE Fail

\* k is what reading the key of a member gave, r what reading its value gave:
\* a comma and the next member follow, or the closing brace
MemberEnd(s, k, r, acc) ==
    CASE ~k.ok \/ Ch(s, SkipWs(s, k.i)) # ":" -> Fail
      [] ~r.ok -> Fail
      [] Ch(s, SkipWs(s, r.i)) = "," ->
            ParseMembers(s, SkipWs(s, SkipWs(s, r.i) + 1), Append(acc, Member(k.v.s, r.v)))
      [] Ch(s, SkipWs(s, r.i)) = "}" ->
            Got(JObj(Append(acc, Member(k.v.s, r.v))), SkipWs(s, r.i) + 1)
      [] OTHER -> Fail

ParseMembers(s, i, acc) ==
    MemberEnd(s, MemberKey(s, i),
              ParseValue(s, SkipWs(s, SkipWs(s, MemberKey(s, i).i) + 1)), acc)

\* one JSON value, then nothing but whitespace
Whole(s, r) == IF r.ok /\ SkipWs(s, r.i) = Len(s) + 1 THEN r ELSE Fail

ParseJson(s) == Whole(s, ParseValue(s, SkipWs(s, 1)))

\* the compact text of a value: the form in which a decoded reply is held
RECURSIVE Render(_), RenderItems(_, _), RenderMembers(_, _)
Render(v) ==
    CASE v.t = "null" -> "null"
      [] v.t = "bool" -> IF v.b THEN "true" ELSE "false"
      [] v.t = "str" -> DebugStr(v.s)
      [] v.t = "num" -> v.text
      [] v.t = "arr" -> "[" \o RenderItems(v.items, 1) \o "]"
      [] v.t = "obj" -> "{" \o RenderMembers(v.members, 1) \o "}"

RenderItems(items, i) ==
    IF i > Len(items) THEN ""
    ELSE Render(items[i]) \o (IF i < Len(items) THEN "," ELSE "") \o RenderItems(items, i + 1)

RenderMembers(ms, i) ==
    IF i > Len(ms) THEN ""
    ELSE DebugStr(ms[i].k) \o ":" \o Render(ms[i].v)
         \o (IF i < Len(ms) THEN "," ELSE "") \o RenderMembers(ms, i + 1)

---------------------------------------------------------------------------
(* Wire vocabulary: the enumerations and their three textual mappings      *)

\* enum HealthStatus with its serde renames, in declaration order
HealthStatus ==
    << [variant |-> "Err", rename |-> "HEALTH_ERR"],
       [variant |-> "Warn", rename |-> "HEALTH_WARN"],
       [variant |-> "Ok", rename |-> "HEALTH_OK"] >>

\* impl fmt::Display for HealthStatus
HealthStatus_Display(v) ==
    CASE v = "Err" -> "HEALTH_ERR"
      [] v = "Ok" -> "HEALTH_OK"
      [] v = "Warn" -> "HEALTH_WARN"

\* impl AsRef<str> for HealthStatus
HealthStatus_as_ref(v) ==
    CASE v = "Err" -> "HEALTH_ERR"
      [] v = "Ok" -> "HEALTH_OK"
      [] v = "Warn" -> "HEALTH_WARN"

\* enum RoundStatus with its serde renames, in declaration order
RoundStatus ==
    << [variant |-> "Finished", rename |-> "finished"],
       [variant |-> "OnGoing", rename |-> "on-going"] >>

\* impl fmt::Display for RoundStatus
RoundStatus_Display(v) ==
    CASE v = "Finished" -> "finished"
      [] v = "OnGoing" -> "on-going"

\* an AsRef<str> that keeps the variant's own spelling for one variant
RoundStatus_as_ref_unrenamed(v) ==
    CASE v = "Finished" -> "finished"
      [] v = "OnGoing" -> "ongoing"

\* impl AsRef<str> for RoundStatus
RoundStatus_as_ref(v) ==
    CASE v = "Finished" -> "finished"
      [] v = "OnGoing" -> "on-going"

\* enum MonState with its serde renames, in declaration order
MonState ==
    << [variant |-> "Probing", rename |-> "probing"],
       [variant |-> "Synchronizing", rename |-> "synchronizing"],
       [variant |-> "Electing", rename |-> "electing"],
       [variant |-> "Leader", rename |-> "leader"],
       [variant |-> "Peon", rename |-> "peon"],
       [variant |-> "Shutdown", rename |-> "shutdown"] >>

\* enum OsdOption with its serde renames, in declaration order
OsdOption ==
    << [variant |-> "Full", rename |-> "full"],
       [variant |-> "Pause", rename |-> "pause"],
       [variant |-> "NoUp", rename |-> "noup"],
       [variant |-> "NoDown", rename |-> "nodown"],
       [variant |-> "NoOut", rename |-> "noout"],
       [variant |-> "NoIn", rename |-> "noin"],
       [variant |-> "NoBackfill", rename |-> "nobackfill"],
       [variant |-> "NoRebalance", rename |-> "norebalance"],
       [variant |-> "NoRecover", rename |-> "norecover"],
       [variant |-> "NoScrub", rename |-> "noscrub"],
       [variant |-> "NoDeepScrub", rename |-> "nodeep-scrub"],
       [variant |-> "NoTierAgent", rename |-> "notieragent"],
       [variant |-> "SortBitwise", rename |-> "sortbitwise"],
       [variant |-> "RecoveryDeletes", rename |-> "recovery_deletes"],
       [variant |-> "RequireJewelOsds", rename |-> "require_jewel_osds"],
       [variant |-> "RequireKrakenOsds", rename |-> "require_kraken_osds"] >>

\* impl fmt::Display for OsdOption
OsdOption_Display(v) ==
    CASE v = "Full" -> "full"
      [] v = "Pause" -> "pause"
      [] v = "NoUp" -> "noup"
      [] v = "NoDown" -> "nodown"
      [] v = "NoOut" -> "noout"
      [] v = "NoIn" -> "noin"
      [] v = "NoBackfill" -> "nobackfill"
      [] v = "NoRebalance" -> "norebalance"
      [] v = "NoRecover" -> "norecover"
      [] v = "NoScrub" -> "noscrub"
      [] v = "NoDeepScrub" -> "nodeep-scrub"
      [] v = "NoTierAgent" -> "notieragent"
      [] v = "SortBitwise" -> "sortbitwise"
      [] v = "RecoveryDeletes" -> "recovery_deletes"
      [] v = "RequireJewelOsds" -> "require_jewel_osds"
      [] v = "RequireKrakenOsds" -> "require_kraken_osds"

\* impl AsRef<str> for OsdOption
OsdOption_as_ref(v) ==
    CASE v = "Full" -> "full"
      [] v = "Pause" -> "pause"
      [] v = "NoUp" -> "noup"
      [] v = "NoDown" -> "nodown"
      [] v = "NoOut" -> "noout"
      [] v = "NoIn" -> "noin"
      [] v = "NoBackfill" -> "nobackfill"
      [] v = "NoRebalance" -> "norebalance"
      [] v = "NoRecover" -> "norecover"
      [] v = "NoScrub" -> "noscrub"
      [] v = "NoDeepScrub" -> "nodeep-scrub"
      [] v = "NoTierAgent" -> "notieragent"
      [] v = "SortBitwise" -> "sortbitwise"
      [] v = "RecoveryDeletes" -> "recovery_deletes"
      [] v = "RequireJewelOsds" -> "require_jewel_osds"
      [] v = "RequireKrakenOsds" -> "require_kraken_osds"

\* enum PoolOption with its serde renames, in declaration order
PoolOption ==
    << [variant |-> "Size", rename |-> "size"],
       [variant |-> "MinSize", rename |-> "min_size"],
       [variant |-> "CrashReplayInterval", rename |-> "crash_replay_interval"],
       [variant |-> "PgNum", rename |-> "pg_num"],
       [variant |-> "PgpNum", rename |-> "pgp_num"],
       [variant |-> "CrushRule", rename |-> "crush_rule"],
       [variant |-> "HashPsPool", rename |-> "hashpspool"],
       [variant |-> "NoDelete", rename |-> "nodelete"],
       [variant |-> "NoPgChange", rename |-> "nopgchange"],
       [variant |-> "NoSizeChange", rename |-> "nosizechange"],
       [variant |-> "WriteFadviceDontNeed", rename |-> "write_fadvice_dontneed"],
       [variant |-> "NoScrub", rename |-> "noscrub"],
       [variant |-> "NoDeepScrub", rename |-> "nodeep-scrub"],
       [variant |-> "HitSetType", rename |-> "hit_set_type"],
       [variant |-> "HitSetPeriod", rename |-> "hit_set_period"],
       [variant |-> "HitSetCount", rename |-> "hit_set_count"],
       [variant |-> "HitSetFpp", rename |-> "hit_set_fpp"],
       [variant |-> "UseGmtHitset", rename |-> "use_gmt_hitset"],
       [variant |-> "TargetMaxBytes", rename |-> "target_max_bytes"],
       [variant |-> "TargetMaxObjects", rename |-> "target_max_objects"],
       [variant |-> "CacheTargetDirtyRatio", rename |-> "cache_target_dirty_ratio"],
       [variant |-> "CacheTargetDirtyHighRatio", rename |-> "cache_target_dirty_high_ratio"],
       [variant |-> "CacheTargetFullRatio", rename |-> "cache_target_full_ratio"],
       [variant |-> "CacheMinFlushAge", rename |-> "cache_min_flush_age"],
       [variant |-> "CacheMinEvictAge", rename |-> "cachem_min_evict_age"],
       [variant |-> "Auid", rename |-> "auid"],
       [variant |-> "MinReadRecencyForPromote", rename |-> "min_read_recency_for_promote"],
       [variant |-> "MinWriteRecencyForPromte", rename |-> "min_write_recency_for_promote"],
       [variant |-> "FastRead", rename |-> "fast_read"],
       [variant |-> "HitSetGradeDecayRate", rename |-> "hit_set_decay_rate"],
       [variant |-> "HitSetSearchLastN", rename |-> "hit_set_search_last_n"],
       [variant |-> "ScrubMinInterval", rename |-> "scrub_min_interval"],
       [variant |-> "ScrubMaxInterval", rename |-> "scrub_max_interval"],
       [variant |-> "DeepScrubInterval", rename |-> "deep_scrub_interval"],
       [variant |-> "RecoveryPriority", rename |-> "recovery_priority"],
       [variant |-> "RecoveryOpPriority", rename |-> "recovery_op_priority"],
       [variant |-> "ScrubPriority", rename |-> "scrub_priority"],
       [variant |-> "CompressionMode", rename |-> "compression_mode"],
       [variant |-> "CompressionAlgorithm", rename |-> "compression_algorithm"],
       [variant |-> "CompressionRequiredRatio", rename |-> "compression_required_ratio"],
       [variant |-> "CompressionMaxBlobSize", rename |-> "compression_max_blob_size"],
       [variant |-> "CompressionMinBlobSize", rename |-> "compression_min_blob_size"],
       [variant |-> "CsumType", rename |-> "csum_type"],
       [variant |-> "CsumMinBlock", rename |-> "csum_min_block"],
       [variant |-> "CsumMaxBlock", rename |-> "csum_max_block"],
       [variant |-> "AllocEcOverwrites", rename |-> "allow_ec_overwrites"] >>

\* impl fmt::Display for PoolOption
PoolOption_Display(v) ==
    CASE v = "Size" -> "size"
      [] v = "MinSize" -> "min_size"
      [] v = "CrashReplayInterval" -> "crash_replay_interval"
      [] v = "PgNum" -> "pg_num"
      [] v = "PgpNum" -> "pgp_num"
      [] v = "CrushRule" -> "crush_rule"
      [] v = "HashPsPool" -> "hashpspool"
      [] v = "NoDelete" -> "nodelete"
      [] v = "NoPgChange" -> "nopgchange"
      [] v = "NoSizeChange" -> "nosizechange"
      [] v = "WriteFadviceDontNeed" -> "write_fadvice_dontneed"
      [] v = "NoScrub" -> "noscrub"
      [] v = "NoDeepScrub" -> "nodeep-scrub"
      [] v = "HitSetType" -> "hit_set_type"
      [] v = "HitSetPeriod" -> "hit_set_period"
      [] v = "HitSetCount" -> "hit_set_count"
      [] v = "HitSetFpp" -> "hit_set_fpp"
      [] v = "UseGmtHitset" -> "use_gmt_hitset"
      [] v = "TargetMaxBytes" -> "target_max_bytes"
      [] v = "TargetMaxObjects" -> "target_max_objects"
      [] v = "CacheTargetDirtyRatio" -> "cache_target_dirty_ratio"
      [] v = "CacheTargetDirtyHighRatio" -> "cache_target_dirty_high_ratio"
      [] v = "CacheTargetFullRatio" -> "cache_target_full_ratio"
      [] v = "CacheMinFlushAge" -> "cache_min_flush_age"
      [] v = "CacheMinEvictAge" -> "cachem_min_evict_age"
      [] v = "Auid" -> "auid"
      [] v = "MinReadRecencyForPromote" -> "min_read_recency_for_promote"
      [] v = "MinWriteRecencyForPromte" -> "min_write_recency_for_promote"
      [] v = "FastRead" -> "fast_read"
      [] v = "HitSetGradeDecayRate" -> "hit_set_decay_rate"
      [] v = "HitSetSearchLastN" -> "hit_set_search_last_n"
      [] v = "ScrubMinInterval" -> "scrub_min_interval"
      [] v = "ScrubMaxInterval" -> "scrub_max_interval"
      [] v = "DeepScrubInterval" -> "deep_scrub_interval"
      [] v = "RecoveryPriority" -> "recovery_priority"
      [] v = "RecoveryOpPriority" -> "recovery_op_priority"
      [] v = "ScrubPriority" -> "scrub_priority"
      [] v = "CompressionMode" -> "compression_mode"
      [] v = "CompressionAlgorithm" -> "compression_algorithm"
      [] v = "CompressionRequiredRatio" -> "compression_required_ratio"
      [] v = "CompressionMaxBlobSize" -> "compression_max_blob_size"
      [] v = "CompressionMinBlobSize" -> "compression_min_blob_size"
      [] v = "CsumType" -> "csum_type"
      [] v = "CsumMinBlock" -> "csum_min_block"
      [] v = "CsumMaxBlock" -> "csum_max_block"
      [] v = "AllocEcOverwrites" -> "allow_ec_overwrites"

\* impl AsRef<str> for PoolOption
PoolOption_as_ref(v) ==
    CASE v = "Size" -> "size"
      [] v = "MinSize" -> "min_size"
      [] v = "CrashReplayInterval" -> "crash_replay_interval"
      [] v = "PgNum" -> "pg_num"
      [] v = "PgpNum" -> "pgp_num"
      [] v = "CrushRule" -> "crush_rule"
      [] v = "HashPsPool" -> "hashpspool"
      [] v = "NoDelete" -> "nodelete"
      [] v = "NoPgChange" -> "nopgchange"
      [] v = "NoSizeChange" -> "nosizechange"
      [] v = "WriteFadviceDontNeed" -> "write_fadvice_dontneed"
      [] v = "NoScrub" -> "noscrub"
      [] v = "NoDeepScrub" -> "nodeep-scrub"
      [] v = "HitSetType" -> "hit_set_type"
      [] v = "HitSetPeriod" -> "hit_set_period"
      [] v = "HitSetCount" -> "hit_set_count"
      [] v = "HitSetFpp" -> "hit_set_fpp"
      [] v = "UseGmtHitset" -> "use_gmt_hitset"
      [] v = "TargetMaxBytes" -> "target_max_bytes"
      [] v = "TargetMaxObjects" -> "target_max_objects"
      [] v = "CacheTargetDirtyRatio" -> "cache_target_dirty_ratio"
      [] v = "CacheTargetDirtyHighRatio" -> "cache_target_dirty_high_ratio"
      [] v = "CacheTargetFullRatio" -> "cache_target_full_ratio"
      [] v = "CacheMinFlushAge" -> "cache_min_flush_age"
      [] v = "CacheMinEvictAge" -> "cachem_min_evict_age"
      [] v = "Auid" -> "auid"
      [] v = "MinReadRecencyForPromote" -> "min_read_recency_for_promote"
      [] v = "MinWriteRecencyForPromte" -> "min_write_recency_for_promote"
      [] v = "FastRead" -> "fast_read"
      [] v = "HitSetGradeDecayRate" -> "hit_set_decay_rate"
      [] v = "HitSetSearchLastN" -> "hit_set_search_last_n"
      [] v = "ScrubMinInterval" -> "scrub_min_interval"
      [] v = "ScrubMaxInterval" -> "scrub_max_interval"
      [] v = "DeepScrubInterval" -> "deep_scrub_interval"
      [] v = "RecoveryPriority" -> "recovery_priority"
      [] v = "RecoveryOpPriority" -> "recovery_op_priority"
      [] v = "ScrubPriority" -> "scrub_priority"
      [] v = "CompressionMode" -> "compression_mode"
      [] v = "CompressionAlgorithm" -> "compression_algorithm"
      [] v = "CompressionRequiredRatio" -> "compression_required_ratio"
      [] v = "CompressionMaxBlobSize" -> "compression_max_blob_size"
      [] v = "CompressionMinBlobSize" -> "compression_min_blob_size"
      [] v = "CsumType" -> "csum_type"
      [] v = "CsumMinBlock" -> "csum_min_block"
      [] v = "CsumMaxBlock" -> "csum_max_block"
      [] v = "AllocEcOverwrites" -> "allow_ec_overwrites"

\* #[serde(rename = "...")] of variant v
Rename(enum, v) ==
    LET i == CHOOSE i \in DOMAIN enum : enum[i].variant = v IN enum[i].rename

\* #[derive(Serialize)] on a unit variant: its rename, as a JSON string
Serialize(enum, v) == Rename(enum, v)

\* s with every character a replaced by b
RECURSIVE Swap(_, _, _)
Swap(s, a, b) ==
    IF s = "" THEN ""
    ELSE (IF Head(s) = a THEN b ELSE Head(s)) \o Swap(Tail(s), a, b)

\* a reader that takes hyphens and underscores for one another
Deserialize_any_separator(enum, token) ==
    LET hits == {i \in DOMAIN enum : Swap(enum[i].rename, "_", "-") = Swap(token, "_", "-")} IN
    IF hits = {} THEN None
    ELSE Some(enum[CHOOSE i \in hits : \A j \in hits : i <= j].variant)

\* #[derive(Deserialize)] on a unit variant: the generated match takes the
\* first variant, in declaration order, whose rename is exactly the token
Deserialize(enum, token) ==
    LET hits == {i \in DOMAIN enum : enum[i].rename = token} IN
    IF hits = {} THEN None
    ELSE Some(enum[CHOOSE i \in hits : \A j \in hits : i <= j].variant)

Variants(enum) == {enum[i].variant : i \in DOMAIN enum}

---------------------------------------------------------------------------
(* Response models: the shapes #[derive(Deserialize)] accepts              *)

TString == [k |-> "String"]

TU64 == [k |-> "u64"]

TI64 == [k |-> "i64"]

TU8 == [k |-> "u8"]

TF64 == [k |-> "f64"]

TBool == [k |-> "bool"]

TUuid == [k |-> "Uuid"]

TVec(t) == [k |-> "Vec", of |-> t]

TOption(t) == [k |-> "Option", of |-> t]

THashMap(t) == [k |-> "HashMap", of |-> t]

TEnum(enum) == [k |-> "enum", variants |-> enum]

TStruct(fields) == [k |-> "struct", fields |-> fields]

Field(name, ty) == [name |-> name, ty |-> ty]

CephMon ==
    TStruct(<< Field("rank", TI64), Field("name", TString), Field("addr", TString) >>)

CrushNode ==
    TStruct(<< Field("id", TI64), Field("name", TString), Field("type", TString),
               Field("type_id", TI64), Field("children", TOption(TVec(TI64))),
               Field("crush_weight", TOption(TF64)), Field("depth", TOption(TI64)),
               Field("exists", TOption(TI64)), Field("status", TOption(TString)),
               Field("reweight", TOption(TF64)), Field("primary_affinity", TOption(TF64)) >>)

CrushTree ==
    TStruct(<< Field("nodes", TVec(CrushNode)), Field("stray", TVec(TString)) >>)

MgrMetadata ==
    TStruct(<< Field("id", TString), Field("arch", TString), Field("ceph_version", TString),
               Field("cpu", TString), Field("distro", TString),
               Field("distro_description", TString), Field("distro_version", TString),
               Field("hostname", TString), Field("kernel_description", TString),
               Field("kernel_version", TString), Field("mem_swap_kb", TU64),
               Field("mem_total_kb", TU64), Field("os", TString) >>)

MgrStandby ==
    TStruct(<< Field("gid", TU64), Field("name", TString),
               Field("available_modules", TVec(TString)) >>)

MgrDump ==
    TStruct(<< Field("epoch", TU64), Field("active_gid", TU64), Field("active_name", TString),
               Field("active_addr", TString), Field("available", TBool),
               Field("standbys", TVec(MgrStandby)), Field("modules", TVec(TString)),
               Field("available_modules", TVec(TString)) >>)

MonDump ==
    TStruct(<< Field("epoch", TI64), Field("fsid", TString), Field("modified", TString),
               Field("created", TString), Field("mons", TVec(CephMon)),
               Field("quorum", TVec(TI64)) >>)

Mon ==
    TStruct(<< Field("rank", TU64), Field("name", TString), Field("addr", TString) >>)

MonMap ==
    TStruct(<< Field("epoch", TU64), Field("fsid", TUuid), Field("modified", TString),
               Field("created", TString), Field("mons", TVec(Mon)) >>)

MonStatus ==
    TStruct(<< Field("name", TString), Field("rank", TU64), Field("state", TEnum(MonState)),
               Field("election_epoch", TU64), Field("quorum", TVec(TU64)),
               Field("outside_quorum", TVec(TU64)), Field("extra_probe_peers", TVec(TU64)),
               Field("sync_provider", TVec(TU64)), Field("monmap", MonMap) >>)

StoreStats ==
    TStruct(<< Field("bytes_total", TU64), Field("bytes_sst", TU64), Field("bytes_log", TU64),
               Field("bytes_misc", TU64), Field("last_updated", TString) >>)

MonHealth ==
    TStruct(<< Field("name", TString), Field("kb_total", TU64), Field("kb_used", TU64),
               Field("kb_avail", TU64), Field("avail_percent", TU8),
               Field("last_updated", TString), Field("store_stats", StoreStats),
               Field("health", TEnum(HealthStatus)) >>)

ServiceHealth ==
    TStruct(<< Field("mons", TVec(MonHealth)) >>)

Health ==
    TStruct(<< Field("health_services", TVec(ServiceHealth)) >>)

MonTimeChecks ==
    TStruct(<< Field("name", TString), Field("skew", TF64), Field("latency", TF64),
               Field("health", TEnum(HealthStatus)) >>)

TimeChecks ==
    TStruct(<< Field("epoch", TU64), Field("round", TU64),
               Field("round_status", TEnum(RoundStatus)), Field("mons", TVec(MonTimeChecks)) >>)

ClusterHealth ==
    TStruct(<< Field("health", Health), Field("timechecks", TimeChecks),
               Field("summary", TVec(TString)), Field("overall_status", TEnum(HealthStatus)),
               Field("detail", TVec(TString)) >>)

HexDigits == Digits \cup {"a", "b", "c", "d", "e", "f", "A", "B", "C", "D", "E", "F"}

\* Uuid::parse_str: 32 hex digits, or the hyphenated 8-4-4-4-12 form
IsUuid(s) ==
    \/ Len(s) = 32 /\ \A i \in 1..32 : Ch(s, i) \in HexDigits
    \/ Len(s) = 36 /\ \A i \in 1..36 :
           IF i \in {9, 14, 19, 24} THEN Ch(s, i) = "-" ELSE Ch(s, i) \in HexDigits

I64Max == "9223372036854775807"

I64MinMagnitude == "9223372036854775808"

U8Max == "255"

\* the members of an object that carry key name
Named(members, name) == {i \in DOMAIN members : members[i].k = name}

\* whether the derived Deserialize of type ty accepts JSON value v: a missing
\* field is accepted only for an Option, a field given twice is refused, other
\* keys are skipped; a struct is also read from an array of its fields in order
RECURSIVE Fits(_, _)
Fits(ty, v) ==
    CASE ty.k = "String" -> v.t = "str"
      [] ty.k = "u64" -> v.t = "num" /\ ~v.float /\ ~v.neg /\ ~Exceeds(v.int, U64Max)
      [] ty.k = "u8" -> v.t = "num" /\ ~v.float /\ ~v.neg /\ ~Exceeds(v.int, U8Max)
      [] ty.k = "i64" -> /\ v.t = "num" /\ ~v.float
                         /\ ~Exceeds(v.int, IF v.neg THEN I64MinMagnitude ELSE I64Max)
      [] ty.k = "f64" -> v.t = "num"
      [] ty.k = "bool" -> v.t = "bool"
      [] ty.k = "Uuid" -> v.t = "str" /\ IsUuid(v.s)
      [] ty.k = "Vec" -> v.t = "arr" /\ \A i \in DOMAIN v.items : Fits(ty.of, v.items[i])
      [] ty.k = "Option" -> v.t = "null" \/ Fits(ty.of, v)
      [] ty.k = "HashMap" ->
            v.t = "obj" /\ \A i \in DOMAIN v.members : Fits(ty.of, v.members[i].v)
      [] ty.k = "enum" ->
            \/ v.t = "str" /\ Deserialize(ty.variants, v.s).some
            \/ /\ v.t = "obj" /\ Len(v.members) = 1
               /\ Deserialize(ty.variants, v.members[1].k).some
               /\ v.members[1].v.t = "null"
      [] ty.k = "struct" ->
            \/ /\ v.t = "obj"
               /\ \A f \in DOMAIN ty.fields :
                    LET hits == Named(v.members, ty.fields[f].name) IN
                    IF hits = {} THEN ty.fields[f].ty.k = "Option"
                    ELSE /\ Cardinality(hits) = 1
                         /\ \A i \in hits : Fits(ty.fields[f].ty, v.members[i].v)
            \/ /\ v.t = "arr" /\ Len(v.items) = Len(ty.fields)
               /\ \A f \in DOMAIN ty.fields : Fits(ty.fields[f].ty, v.items[f])

---------------------------------------------------------------------------
(* Values the calls are made with                                          *)

\* the largest number of lines in a reply's primary text
MaxLines == 2

OsdIds == {0, 12}

Pools == {"rbd"}

PoolValues == {"3"}

\* the options the calls are made with; all variants are covered by the
\* vocabulary specification below
OsdOptions == {"Full", "NoDeepScrub", "RecoveryDeletes"}

PoolOptions == {"Size", "NoDeepScrub", "CacheMinEvictAge"}

\* f64 weights, by their decimal text
Weights == {"0.5"}

Hosts == {"node1"}

MgrIds == {"x"}

Modules == {"dashboard"}

ClientTypes == {"client", "osd"}

ClientIds == {"admin"}

Properties == {"ceph_version"}

\* Option<u64>
NoId == [some |-> FALSE, v |-> 0]

SomeId(n) == [some |-> TRUE, v |-> n]

OptionalIds == {NoId} \cup {SomeId(n) : n \in OsdIds}

\* one well-formed reply line per response model
SampleClusterHealth ==
    "{\"health\":{\"health_services\":[{\"mons\":[{\"name\":\"a\",\"kb_total\":100,\"kb_used\":10,\"kb_avail\":90,\"avail_percent\":90,\"last_updated\":\"t\",\"store_stats\":{\"bytes_total\":1,\"bytes_sst\":0,\"bytes_log\":1,\"bytes_misc\":0,\"last_updated\":\"t\"},\"health\":\"HEALTH_OK\"}]}]},\"timechecks\":{\"epoch\":2,\"round\":0,\"round_status\":\"on-going\",\"mons\":[{\"name\":\"a\",\"skew\":0.0,\"latency\":0.5,\"health\":\"HEALTH_WARN\"}]},\"summary\":[],\"overall_status\":\"HEALTH_OK\",\"detail\":[]}"

SampleCrushTree ==
    "{\"nodes\":[{\"id\":-1,\"name\":\"default\",\"type\":\"root\",\"type_id\":10,\"children\":[0]},{\"id\":0,\"name\":\"osd.0\",\"type\":\"osd\",\"type_id\":0,\"crush_weight\":0.5,\"depth\":1,\"exists\":1,\"status\":\"up\",\"reweight\":1.0,\"primary_affinity\":1.0}],\"stray\":[]}"

SampleMonDump ==
    "{\"epoch\":1,\"fsid\":\"f\",\"modified\":\"m\",\"created\":\"c\",\"mons\":[{\"rank\":0,\"name\":\"a\",\"addr\":\"10.0.0.1:6789/0\"}],\"quorum\":[0]}"

SampleMonStatus ==
    "{\"name\":\"a\",\"rank\":0,\"state\":\"leader\",\"election_epoch\":4,\"quorum\":[0],\"outside_quorum\":[],\"extra_probe_peers\":[],\"sync_provider\":[],\"monmap\":{\"epoch\":1,\"fsid\":\"a7f64266-0894-4f1e-a635-d0aeaca0e993\",\"modified\":\"m\",\"created\":\"c\",\"mons\":[{\"rank\":0,\"name\":\"a\",\"addr\":\"x\"}]}}"

SampleMgrDump ==
    "{\"epoch\":3,\"active_gid\":4100,\"active_name\":\"x\",\"active_addr\":\"a\",\"available\":true,\"standbys\":[{\"gid\":7,\"name\":\"y\",\"available_modules\":[]}],\"modules\":[\"restful\"],\"available_modules\":[]}"

SampleMgrMetadata ==
    "{\"id\":\"x\",\"arch\":\"x86_64\",\"ceph_version\":\"v\",\"cpu\":\"c\",\"distro\":\"d\",\"distro_description\":\"dd\",\"distro_version\":\"1\",\"hostname\":\"h\",\"kernel_description\":\"k\",\"kernel_version\":\"4\",\"mem_swap_kb\":0,\"mem_total_kb\":1024,\"os\":\"Linux\"}"

SampleStringList ==
    "[\"restful\",\"status\"]"

SampleCounts ==
    "{\"x86_64\":1}"

SampleJsonString ==
    "\"ab\""

\* first lines a reply may carry: an empty line, numerals around the u64
\* range, a non-numeric sentinel, and one document per response model
FirstLines ==
    { "", "42", "007", "+7", "-1", " 42", "none",
      "18446744073709551615", "18446744073709551616",
      SampleJsonString, SampleStringList, SampleCounts,
      SampleClusterHealth, SampleCrushTree, SampleMonDump, SampleMonStatus,
      SampleMgrDump, SampleMgrMetadata }

\* lines after the first
LaterLines == {"garbage", "42"}

LineEndings == {"\n", "\r\n"}

\* texts of exactly k lines, the last one ended / not ended by a line ending
RECURSIVE Terminated(_)
Terminated(k) ==
    IF k = 1 THEN {f \o e : f \in FirstLines, e \in LineEndings}
    ELSE {t \o l \o e : t \in Terminated(k - 1), l \in LaterLines, e \in LineEndings}

Unterminated(k) ==
    IF k = 1 THEN FirstLines
    ELSE {t \o l : t \in Terminated(k - 1), l \in LaterLines}

Texts == UNION {Terminated(k) \cup Unterminated(k) : k \in 1..MaxLines}

Diagnostics == {"permission denied", "osd.12 does not exist"}

---------------------------------------------------------------------------
(* RadosResult                                                             *)

Ok(kind, val) == [tag |-> "Ok", kind |-> kind, val |-> val]

Err(kind, val) == [tag |-> "Err", kind |-> kind, val |-> val]

\* Ok(())
OkUnit == Ok("()", "()")

\* what ceph_mon_command_without_data returns: Ok((primary, secondary)) or Err(e)
Replied(primary, secondary) ==
    [tag |-> "Ok", primary |-> primary, secondary |-> secondary, err |-> Err("", "")]

TransportErr(e) == [tag |-> "Err", primary |-> None, secondary |-> None, err |-> e]

NoReply == [tag |-> "", primary |-> None, secondary |-> None, err |-> Err("", "")]

NoResult == [tag |-> "", kind |-> "", val |-> ""]

\* errors of the transport: an errno of the rados call, or its own message
TransportErrors ==
    { Err("ApiError", "ENOENT"),
      Err("Error", "Rados not connected.  Please initialize cluster") }

\* u64::to_string
RECURSIVE to_string(_)
to_string(n) ==
    LET d == SubSeq("0123456789", (n % 10) + 1, (n % 10) + 1) IN
    IF n < 10 THEN d ELSE to_string(n \div 10) \o d

---------------------------------------------------------------------------
(* Decoding the first line                                                 *)

\* a return of the line read as a JSON string instead of taken as it is
Raw_decoded == [k |-> "String"]

\* `res.into()` / `res.to_string()`
Raw == [k |-> "raw"]

\* `u64::from_str(res)?`
FromStrU64 == [k |-> "u64::from_str"]

\* `serde_json::from_str(res)?` into type ty; the error is what From makes of
\* serde_json::Error, which holds a category and a position
Deserialized(ty, r) ==
    IF ~r.ok THEN Err("SerdeJson", "syntax")
    ELSE IF ~Fits(ty, r.v) THEN Err("SerdeJson", "data")
    ELSE IF ty.k = "String" THEN Ok("String", r.v.s)
    ELSE Ok("json", Render(r.v))

from_str(ty, s) == Deserialized(ty, ParseJson(s))

Decode(how, line) ==
    IF how.k = "raw" THEN Ok("String", line)
    ELSE IF how.k = "u64::from_str"
         THEN LET n == u64_from_str(line) IN
              IF n.ok THEN Ok("u64", n.n) ELSE Err("ParseIntError", n.kind)
    ELSE from_str(how, line)

\* the block every reply-parsing function repeats:
\*   let result = ceph_mon_command_without_data(..)?;
\*   if let Some(return_data) = result.0 {
\*       match return_data.lines().next() {
\*           Some(res) => return Ok(<decode res>),
\*           None => return Err(RadosError::Error(format!("<unparsable>{:?}", return_data))) } }
\*   Err(RadosError::Error(<absent>))
ParsedReply(r, how, unparsable, absent) ==
    IF r.tag = "Err" THEN r.err
    ELSE IF r.primary.some
         THEN LET res == next(lines(r.primary.v)) IN
              IF res.some THEN Decode(how, res.v)
              ELSE Err("Error", unparsable \o DebugStr(r.primary.v))
    ELSE Err("Error", absent)

\* the block every unit-returning function repeats:
\*   if !simulate { ceph_mon_command_without_data(..)?; }  Ok(())
\* a unit function that reports success whatever the transport did
UnitReply_always_ok(r) == OkUnit

\* a unit function that takes a diagnostic without primary text as a failure
UnitReply_inspected(r) ==
    IF r.tag = "Err" THEN r.err
    ELSE IF ~r.primary.some /\ r.secondary.some THEN Err("Error", r.secondary.v)
    ELSE OkUnit

UnitReply(r) == IF r.tag = "Err" THEN r.err ELSE OkUnit

---------------------------------------------------------------------------
(* The steps of a call                                                     *)

\* json!: the descriptor is built from the parameters
Build(o, a, c) ==
    /\ pc = "Idle"
    /\ pc' = "Built"
    /\ op' = o
    /\ args' = a
    /\ cmd' = c
    /\ UNCHANGED <<calls, reply, result, vocab, waiting>>

\* ceph_mon_command_without_data(cluster_handle, &cmd) is entered
Dispatch(o) ==
    /\ pc = "Built"
    /\ op = o
    /\ pc' = "Dispatched"
    /\ calls' = calls + 1
    /\ UNCHANGED <<op, args, cmd, reply, result, vocab, waiting>>

\* a function that sends the command whatever simulate says
Gate_sends(o, placeholder) == Dispatch(o)

\* `if simulate { return <placeholder> }`, else the command is sent
Gate(o, placeholder) ==
    /\ pc = "Built"
    /\ op = o
    /\ IF args.simulate
       THEN /\ pc' = "Simulated"
            /\ result' = placeholder
            /\ UNCHANGED <<op, args, cmd, calls, reply, vocab, waiting>>
       ELSE Dispatch(o)

\* a function that sends the command again when it has failed
Finish_retries(o, r) ==
    /\ pc = "Returned"
    /\ op = o
    /\ pc' = IF r.tag = "Ok" THEN "Succeeded" ELSE "Built"
    /\ result' = r
    /\ UNCHANGED <<op, args, cmd, calls, reply, vocab, waiting>>

\* a function that aborts when the reply holds no text at all
Finish_unless_empty(o, r) ==
    /\ pc = "Returned"
    /\ op = o
    /\ reply.tag = "Err" \/ reply.primary.some \/ reply.secondary.some
    /\ pc' = IF r.tag = "Ok" THEN "Succeeded" ELSE "Failed"
    /\ result' = r
    /\ UNCHANGED <<op, args, cmd, calls, reply, vocab, waiting>>

\* a function that gives up when a call of another thread holds a reply
Finish_when_alone(o, r) ==
    /\ pc = "Returned"
    /\ op = o
    /\ pc' = IF r.tag = "Ok" /\ waiting.pc # "Returned" THEN "Succeeded" ELSE "Failed"
    /\ result' = IF waiting.pc # "Returned" THEN r ELSE Err("Error", "busy")
    /\ UNCHANGED <<op, args, cmd, calls, reply, vocab, waiting>>

\* the function returns r
Finish(o, r) ==
    /\ pc = "Returned"
    /\ op = o
    /\ pc' = IF r.tag = "Ok" THEN "Succeeded" ELSE "Failed"
    /\ result' = r
    /\ UNCHANGED <<op, args, cmd, calls, reply, vocab, waiting>>

\* the transport returns the two optional texts
RepliesWith(texts) ==
    /\ pc = "Dispatched"
    /\ \E p \in {None} \cup {Some(t) : t \in texts},
          s \in {None} \cup {Some(d) : d \in Diagnostics} :
          reply' = Replied(p, s)
    /\ pc' = "Returned"
    /\ UNCHANGED <<op, args, cmd, calls, result, vocab, waiting>>

TransportReplies == RepliesWith(Texts)

\* the transport fails
TransportFails ==
    /\ pc = "Dispatched"
    /\ \E e \in TransportErrors : reply' = TransportErr(e)
    /\ pc' = "Returned"
    /\ UNCHANGED <<op, args, cmd, calls, result, vocab, waiting>>

\* the caller has the result; nothing of the call is kept
Return ==
    /\ pc \in {"Succeeded", "Failed", "Simulated"}
    /\ pc' = "Idle"
    /\ op' = ""
    /\ args' = << >>
    /\ cmd' = << >>
    /\ calls' = 0
    /\ reply' = NoReply
    /\ result' = NoResult
    /\ UNCHANGED <<vocab, waiting>>

NoArgs == << >>

---------------------------------------------------------------------------
(* The functions of cmd.rs: the descriptor, the value returned for a reply *)
(* r of the transport, and the steps of the call                          *)

cluster_health_cmd == [prefix |-> JStr("health")]

cluster_health_reply(r) ==
    ParsedReply(r, ClusterHealth, "Unable to parse health output: ",
                unwrap_or(r.secondary, "No response from ceph for health"))

cluster_health ==
    \/ Build("cluster_health", NoArgs, cluster_health_cmd)
    \/ Dispatch("cluster_health")
    \/ Finish("cluster_health", cluster_health_reply(reply))

osd_out_cmd(osd_id) ==
    [prefix |-> JStr("osd out"), ids |-> JArr(<< JStr(to_string(osd_id)) >>)]

osd_out ==
    \/ \E osd_id \in OsdIds, simulate \in BOOLEAN :
          Build("osd_out", [osd_id |-> osd_id, simulate |-> simulate], osd_out_cmd(osd_id))
    \/ Gate("osd_out", OkUnit)
    \/ Finish("osd_out", UnitReply(reply))

osd_crush_remove_cmd(osd_id) ==
    [prefix |-> JStr("osd crush remove"), name |-> JStr("osd." \o to_string(osd_id))]

osd_crush_remove ==
    \/ \E osd_id \in OsdIds, simulate \in BOOLEAN :
          Build("osd_crush_remove", [osd_id |-> osd_id, simulate |-> simulate], osd_crush_remove_cmd(osd_id))
    \/ Gate("osd_crush_remove", OkUnit)
    \/ Finish("osd_crush_remove", UnitReply(reply))

osd_pool_get_cmd(pool, choice) ==
    [prefix |-> JStr("osd pool get"), pool |-> JStr(pool), var |-> JStr(Serialize(PoolOption, choice))]

osd_pool_get_reply(r) ==
    ParsedReply(r, Raw, "Unable to parse osd pool get output: ",
                unwrap_or(r.secondary, "No response from ceph for osd pool get"))

osd_pool_get ==
    \/ \E pool \in Pools, choice \in PoolOptions :
          Build("osd_pool_get", [pool |-> pool, choice |-> choice], osd_pool_get_cmd(pool, choice))
    \/ Dispatch("osd_pool_get")
    \/ Finish("osd_pool_get", osd_pool_get_reply(reply))

osd_pool_set_cmd(pool, key, value) ==
    [prefix |-> JStr("osd pool set"), pool |-> JStr(pool), var |-> JStr(Serialize(PoolOption, key)), val |-> JStr(value)]

osd_pool_set ==
    \/ \E pool \in Pools, key \in PoolOptions, value \in PoolValues, simulate \in BOOLEAN :
          Build("osd_pool_set", [pool |-> pool, key |-> key, value |-> value, simulate |-> simulate], osd_pool_set_cmd(pool, key, value))
    \/ Gate("osd_pool_set", OkUnit)
    \/ Finish("osd_pool_set", UnitReply(reply))

\* an osd_set that always sends the field, with the flag as its value
osd_set_cmd_flag(key, force) ==
    [prefix |-> JStr("osd set"), key |-> JStr(Serialize(OsdOption, key)), sure |-> JBool(force)]

osd_set_cmd(key, force) ==
    IF force
    THEN [prefix |-> JStr("osd set"), key |-> JStr(Serialize(OsdOption, key)),
          sure |-> JStr("--yes-i-really-mean-it")]
    ELSE [prefix |-> JStr("osd set"), key |-> JStr(Serialize(OsdOption, key))]

osd_set ==
    \/ \E key \in OsdOptions, force \in BOOLEAN, simulate \in BOOLEAN :
          Build("osd_set", [key |-> key, force |-> force, simulate |-> simulate], osd_set_cmd(key, force))
    \/ Gate("osd_set", OkUnit)
    \/ Finish("osd_set", UnitReply(reply))

osd_unset_cmd(key) == [prefix |-> JStr("osd unset"), key |-> JStr(Serialize(OsdOption, key))]

osd_unset ==
    \/ \E key \in OsdOptions, simulate \in BOOLEAN :
          Build("osd_unset", [key |-> key, simulate |-> simulate], osd_unset_cmd(key))
    \/ Gate("osd_unset", OkUnit)
    \/ Finish("osd_unset", UnitReply(reply))

osd_tree_cmd == [prefix |-> JStr("osd tree"), format |-> JStr("json")]

osd_tree_reply(r) ==
    ParsedReply(r, CrushTree, "Unable to parse osd tree output: ",
                "No response from ceph for osd tree")

osd_tree ==
    \/ Build("osd_tree", NoArgs, osd_tree_cmd)
    \/ Dispatch("osd_tree")
    \/ Finish("osd_tree", osd_tree_reply(reply))

status_cmd == [prefix |-> JStr("status"), format |-> JStr("json")]

status_reply(r) ==
    ParsedReply(r, Raw, "Unable to parse status output: ",
                "No response from ceph for status")

status ==
    \/ Build("status", NoArgs, status_cmd)
    \/ Dispatch("status")
    \/ Finish("status", status_reply(reply))

mon_dump_cmd == [prefix |-> JStr("mon dump"), format |-> JStr("json")]

\* a mon_dump whose message for a missing reply names no function
mon_dump_reply_unnamed(r) ==
    ParsedReply(r, MonDump, "Unable to parse mon dump output: ", "No response from ceph")

mon_dump_reply(r) ==
    ParsedReply(r, MonDump, "Unable to parse mon dump output: ",
                "No response from ceph for mon dump")

mon_dump ==
    \/ Build("mon_dump", NoArgs, mon_dump_cmd)
    \/ Dispatch("mon_dump")
    \/ Finish("mon_dump", mon_dump_reply(reply))

mon_quorum_cmd == [prefix |-> JStr("quorum_status"), format |-> JStr("json")]

\* a mon_quorum that returns the line as it is
mon_quorum_reply_raw(r) ==
    ParsedReply(r, Raw, "Unable to parse quorum_status output: ",
                "No response from ceph for quorum_status")

mon_quorum_reply(r) ==
    ParsedReply(r, TString, "Unable to parse quorum_status output: ",
                "No response from ceph for quorum_status")

mon_quorum ==
    \/ Build("mon_quorum", NoArgs, mon_quorum_cmd)
    \/ Dispatch("mon_quorum")
    \/ Finish("mon_quorum", mon_quorum_reply(reply))

mon_status_cmd == [prefix |-> JStr("mon_status")]

mon_status_reply(r) ==
    ParsedReply(r, MonStatus, "Unable to parse mon_status output: ",
                "No response from ceph for mon_status")

mon_status ==
    \/ Build("mon_status", NoArgs, mon_status_cmd)
    \/ Dispatch("mon_status")
    \/ Finish("mon_status", mon_status_reply(reply))

version_cmd == [prefix |-> JStr("version")]

version_reply(r) ==
    ParsedReply(r, Raw, "Unable to parse version output: ",
                "No response from ceph for version")

version ==
    \/ Build("version", NoArgs, version_cmd)
    \/ Dispatch("version")
    \/ Finish("version", version_reply(reply))

osd_pool_quota_get_cmd(pool) == [prefix |-> JStr("osd pool get-quota"), pool |-> JStr(pool)]

osd_pool_quota_get_reply(r) ==
    ParsedReply(r, FromStrU64, "Unable to parse osd pool quota-get output: ",
                "No response from ceph for osd pool quota-get")

osd_pool_quota_get ==
    \/ \E pool \in Pools :
          Build("osd_pool_quota_get", [pool |-> pool], osd_pool_quota_get_cmd(pool))
    \/ Dispatch("osd_pool_quota_get")
    \/ Finish("osd_pool_quota_get", osd_pool_quota_get_reply(reply))

auth_del_cmd(osd_id) ==
    [prefix |-> JStr("auth del"), entity |-> JStr("osd." \o to_string(osd_id))]

auth_del ==
    \/ \E osd_id \in OsdIds, simulate \in BOOLEAN :
          Build("auth_del", [osd_id |-> osd_id, simulate |-> simulate], auth_del_cmd(osd_id))
    \/ Gate("auth_del", OkUnit)
    \/ Finish("auth_del", UnitReply(reply))

\* an osd_rm that sends the id as a number
osd_rm_cmd_number(osd_id) == [prefix |-> JStr("osd rm"), ids |-> JArr(<< JU64(osd_id) >>)]

osd_rm_cmd(osd_id) == [prefix |-> JStr("osd rm"), ids |-> JArr(<< JStr(to_string(osd_id)) >>)]

osd_rm ==
    \/ \E osd_id \in OsdIds, simulate \in BOOLEAN :
          Build("osd_rm", [osd_id |-> osd_id, simulate |-> simulate], osd_rm_cmd(osd_id))
    \/ Gate("osd_rm", OkUnit)
    \/ Finish("osd_rm", UnitReply(reply))

\* a descriptor whose command name changes when an id is asked for
osd_create_cmd_by_id(id) ==
    IF id.some
    THEN [prefix |-> JStr("osd new"), id |-> JStr("osd." \o to_string(id.v))]
    ELSE [prefix |-> JStr("osd create")]

osd_create_cmd(id) ==
    IF id.some
    THEN [prefix |-> JStr("osd create"), id |-> JStr("osd." \o to_string(id.v))]
    ELSE [prefix |-> JStr("osd create")]

osd_create_reply(r) ==
    ParsedReply(r, FromStrU64, "Unable to parse osd create output: ",
                "Unable to parse osd create output: " \o DebugReply(r.primary, r.secondary))

osd_create ==
    \/ \E id \in OptionalIds, simulate \in BOOLEAN :
          Build("osd_create", [id |-> id, simulate |-> simulate], osd_create_cmd(id))
    \/ Gate("osd_create", Ok("u64", "0"))
    \/ Finish("osd_create", osd_create_reply(reply))

mgr_auth_add_cmd(mgr_id) ==
    [prefix |-> JStr("auth add"), entity |-> JStr("mgr." \o mgr_id),
     caps |-> JArr(<< JStr("mon"), JStr("allow profile mgr"), JStr("osd"), JStr("allow *"),
                      JStr("mds"), JStr("allow *") >>)]

mgr_auth_add ==
    \/ \E mgr_id \in MgrIds, simulate \in BOOLEAN :
          Build("mgr_auth_add", [mgr_id |-> mgr_id, simulate |-> simulate], mgr_auth_add_cmd(mgr_id))
    \/ Gate("mgr_auth_add", OkUnit)
    \/ Finish("mgr_auth_add", UnitReply(reply))

osd_auth_add_cmd(osd_id) ==
    [prefix |-> JStr("auth add"), entity |-> JStr("osd." \o to_string(osd_id)),
     caps |-> JArr(<< JStr("mon"), JStr("allow rwx"), JStr("osd"), JStr("allow *") >>)]

osd_auth_add ==
    \/ \E osd_id \in OsdIds, simulate \in BOOLEAN :
          Build("osd_auth_add", [osd_id |-> osd_id, simulate |-> simulate], osd_auth_add_cmd(osd_id))
    \/ Gate("osd_auth_add", OkUnit)
    \/ Finish("osd_auth_add", UnitReply(reply))

auth_get_key_cmd(client_type, id) ==
    [prefix |-> JStr("auth get-key"), entity |-> JStr(client_type \o "." \o id)]

auth_get_key_reply(r) ==
    ParsedReply(r, Raw, "Unable to parse auth get-key: ",
                "Unable to parse auth get-key output: " \o DebugReply(r.primary, r.secondary))

auth_get_key ==
    \/ \E client_type \in ClientTypes, id \in ClientIds :
          Build("auth_get_key", [client_type |-> client_type, id |-> id], auth_get_key_cmd(client_type, id))
    \/ Dispatch("auth_get_key")
    \/ Finish("auth_get_key", auth_get_key_reply(reply))

osd_crush_add_cmd(osd_id, weight, host) ==
    [prefix |-> JStr("osd crush add"), id |-> JU64(osd_id), weight |-> JF64(weight),
     args |-> JArr(<< JStr("host=" \o host) >>)]

osd_crush_add ==
    \/ \E osd_id \in OsdIds, weight \in Weights, host \in Hosts, simulate \in BOOLEAN :
          Build("osd_crush_add", [osd_id |-> osd_id, weight |-> weight, host |-> host, simulate |-> simulate], osd_crush_add_cmd(osd_id, weight, host))
    \/ Gate("osd_crush_add", OkUnit)
    \/ Finish("osd_crush_add", UnitReply(reply))

mgr_dump_cmd == [prefix |-> JStr("mgr dump")]

mgr_dump_reply(r) ==
    ParsedReply(r, MgrDump, "Unable to parse mgr dump: ",
                "Unable to parse mgr dump output: " \o DebugReply(r.primary, r.secondary))

mgr_dump ==
    \/ Build("mgr_dump", NoArgs, mgr_dump_cmd)
    \/ Dispatch("mgr_dump")
    \/ Finish("mgr_dump", mgr_dump_reply(reply))

mgr_fail_cmd(mgr_id) == [prefix |-> JStr("mgr fail"), name |-> JStr(mgr_id)]

mgr_fail ==
    \/ \E mgr_id \in MgrIds, simulate \in BOOLEAN :
          Build("mgr_fail", [mgr_id |-> mgr_id, simulate |-> simulate], mgr_fail_cmd(mgr_id))
    \/ Gate("mgr_fail", OkUnit)
    \/ Finish("mgr_fail", UnitReply(reply))

mgr_list_modules_cmd == [prefix |-> JStr("mgr module ls")]

mgr_list_modules_reply(r) ==
    ParsedReply(r, TVec(TString), "Unable to parse mgr module ls: ",
                "Unable to parse mgr ls output: " \o DebugReply(r.primary, r.secondary))

mgr_list_modules ==
    \/ Build("mgr_list_modules", NoArgs, mgr_list_modules_cmd)
    \/ Dispatch("mgr_list_modules")
    \/ Finish("mgr_list_modules", mgr_list_modules_reply(reply))

mgr_list_services_cmd == [prefix |-> JStr("mgr services")]

mgr_list_services_reply(r) ==
    ParsedReply(r, TVec(TString), "Unable to parse mgr services: ",
                "Unable to parse mgr services output: " \o DebugReply(r.primary, r.secondary))

mgr_list_services ==
    \/ Build("mgr_list_services", NoArgs, mgr_list_services_cmd)
    \/ Dispatch("mgr_list_services")
    \/ Finish("mgr_list_services", mgr_list_services_reply(reply))

mgr_enable_module_cmd(module, force) ==
    IF force
    THEN [prefix |-> JStr("mgr module enable"), module |-> JStr(module), force |-> JStr("--force")]
    ELSE [prefix |-> JStr("mgr module enable"), module |-> JStr(module)]

mgr_enable_module ==
    \/ \E module \in Modules, force \in BOOLEAN, simulate \in BOOLEAN :
          Build("mgr_enable_module", [module |-> module, force |-> force, simulate |-> simulate], mgr_enable_module_cmd(module, force))
    \/ Gate("mgr_enable_module", OkUnit)
    \/ Finish("mgr_enable_module", UnitReply(reply))

mgr_disable_module_cmd(module) ==
    [prefix |-> JStr("mgr module disable"), module |-> JStr(module)]

mgr_disable_module ==
    \/ \E module \in Modules, simulate \in BOOLEAN :
          Build("mgr_disable_module", [module |-> module, simulate |-> simulate], mgr_disable_module_cmd(module))
    \/ Gate("mgr_disable_module", OkUnit)
    \/ Finish("mgr_disable_module", UnitReply(reply))

mgr_metadata_cmd == [prefix |-> JStr("mgr metadata")]

mgr_metadata_reply(r) ==
    ParsedReply(r, MgrMetadata, "Unable to parse mgr metadata: ",
                "Unable to parse mgr metadata output: " \o DebugReply(r.primary, r.secondary))

mgr_metadata ==
    \/ Build("mgr_metadata", NoArgs, mgr_metadata_cmd)
    \/ Dispatch("mgr_metadata")
    \/ Finish("mgr_metadata", mgr_metadata_reply(reply))

mgr_count_metadata_cmd(property) ==
    [prefix |-> JStr("mgr count-metadata"), name |-> JStr(property)]

mgr_count_metadata_reply(r) ==
    ParsedReply(r, THashMap(TU64), "Unable to parse mgr count-metadata: ",
                "Unable to parse mgr count-metadata output: " \o DebugReply(r.primary, r.secondary))

mgr_count_metadata ==
    \/ \E property \in Properties :
          Build("mgr_count_metadata", [property |-> property], mgr_count_metadata_cmd(property))
    \/ Dispatch("mgr_count_metadata")
    \/ Finish("mgr_count_metadata", mgr_count_metadata_reply(reply))

mgr_versions_cmd == [prefix |-> JStr("mgr versions")]

mgr_versions_reply(r) ==
    ParsedReply(r, THashMap(TU64), "Unable to parse mgr versions: ",
                "Unable to parse mgr versions output: " \o DebugReply(r.primary, r.secondary))

mgr_versions ==
    \/ Build("mgr_versions", NoArgs, mgr_versions_cmd)
    \/ Dispatch("mgr_versions")
    \/ Finish("mgr_versions", mgr_versions_reply(reply))

---------------------------------------------------------------------------
(* The calls                                                               *)

VocabIdle == [enum |-> "", variant |-> "", wire |-> None, token |-> None, back |-> None,
              shown |-> None, ref |-> None]

Idle ==
    /\ pc = "Idle"
    /\ op = ""
    /\ args = << >>
    /\ cmd = << >>
    /\ calls = 0
    /\ reply = NoReply
    /\ result = NoResult

\* the locals of a thread that is in no call
NoCall ==
    [pc |-> "Idle", op |-> "", args |-> << >>, cmd |-> << >>, calls |-> 0,
     reply |-> NoReply, result |-> NoResult]

Init == Idle /\ vocab = VocabIdle /\ waiting = NoCall

\* the functions of the module
Calls ==
    \/ cluster_health
    \/ osd_out
    \/ osd_crush_remove
    \/ osd_pool_get
    \/ osd_pool_set
    \/ osd_set
    \/ osd_unset
    \/ osd_tree
    \/ status
    \/ mon_dump
    \/ mon_quorum
    \/ mon_status
    \/ version
    \/ osd_pool_quota_get
    \/ auth_del
    \/ osd_rm
    \/ osd_create
    \/ mgr_auth_add
    \/ osd_auth_add
    \/ auth_get_key
    \/ osd_crush_add
    \/ mgr_dump
    \/ mgr_fail
    \/ mgr_list_modules
    \/ mgr_list_services
    \/ mgr_enable_module
    \/ mgr_disable_module
    \/ mgr_metadata
    \/ mgr_count_metadata
    \/ mgr_versions

Next ==
    \/ Calls
    \/ TransportReplies
    \/ TransportFails
    \/ Return

Spec == Init /\ [][Next]_vars

---------------------------------------------------------------------------
(* The wire vocabulary on its own: each variant of each enumeration is     *)
(* written, shown and read back                                            *)

EnumNames == {"OsdOption", "PoolOption", "HealthStatus", "RoundStatus"}

\* the enumerations that derive Serialize
Serializable == {"OsdOption", "PoolOption"}

EnumOf(e) ==
    CASE e = "OsdOption" -> OsdOption
      [] e = "PoolOption" -> PoolOption
      [] e = "HealthStatus" -> HealthStatus
      [] e = "RoundStatus" -> RoundStatus

Display(e, v) ==
    CASE e = "OsdOption" -> OsdOption_Display(v)
      [] e = "PoolOption" -> PoolOption_Display(v)
      [] e = "HealthStatus" -> HealthStatus_Display(v)
      [] e = "RoundStatus" -> RoundStatus_Display(v)

AsRef(e, v) ==
    CASE e = "OsdOption" -> OsdOption_as_ref(v)
      [] e = "PoolOption" -> PoolOption_as_ref(v)
      [] e = "HealthStatus" -> HealthStatus_as_ref(v)
      [] e = "RoundStatus" -> RoundStatus_as_ref(v)

\* tokens offered to the reader for a variant: its rename, and the rename
\* with hyphens and underscores exchanged
TokensNear(e, v) ==
    LET t == Rename(EnumOf(e), v) IN {t, Swap(t, "-", "_"), Swap(t, "_", "-")}

VocabInit ==
    /\ Idle
    /\ waiting = NoCall
    /\ \E e \in EnumNames : \E v \in Variants(EnumOf(e)) :
          vocab = [VocabIdle EXCEPT !.enum = e, !.variant = v]

\* the variant is written to the wire
to_token ==
    /\ vocab.enum \in Serializable
    /\ ~vocab.wire.some
    /\ vocab' = [vocab EXCEPT !.wire = Some(Serialize(EnumOf(vocab.enum), vocab.variant))]
    /\ UNCHANGED <<pc, op, args, cmd, calls, reply, result, waiting>>

\* a token is read from the wire: the one written, or one near it
from_token ==
    /\ ~vocab.token.some
    /\ \E t \in (IF vocab.wire.some THEN {vocab.wire.v} ELSE {})
                \cup TokensNear(vocab.enum, vocab.variant) :
          vocab' = [vocab EXCEPT !.token = Some(t),
                                 !.back = Deserialize(EnumOf(vocab.enum), t)]
    /\ UNCHANGED <<pc, op, args, cmd, calls, reply, result, waiting>>

\* the variant is formatted with Display
fmt ==
    /\ ~vocab.shown.some
    /\ vocab' = [vocab EXCEPT !.shown = Some(Display(vocab.enum, vocab.variant))]
    /\ UNCHANGED <<pc, op, args, cmd, calls, reply, result, waiting>>

\* the variant is borrowed as a str
as_ref ==
    /\ ~vocab.ref.some
    /\ vocab' = [vocab EXCEPT !.ref = Some(AsRef(vocab.enum, vocab.variant))]
    /\ UNCHANGED <<pc, op, args, cmd, calls, reply, result, waiting>>

VocabNext == to_token \/ from_token \/ fmt \/ as_ref

VocabSpec == VocabInit /\ [][VocabNext]_vars

\* the texts a reply is handled by: one without a first line, one with
OutcomeTexts == {"", "x\n"}

\* the calls with one transport reply of each kind
OutcomeNext ==
    \/ Calls
    \/ RepliesWith(OutcomeTexts)
    \/ TransportFails
    \/ Return

\* a step of the call in progress: of the function's body or of the transport
Running == pc # "Idle" /\ OutcomeNext /\ pc' # "Idle"

\* a function runs to its return and the transport call it makes comes back
FairSpec == Init /\ [][OutcomeNext]_vars /\ WF_vars(Running)

\* the locals of the call of the running thread
ThisCall ==
    [pc |-> pc, op |-> op, args |-> args, cmd |-> cmd, calls |-> calls,
     reply |-> reply, result |-> result]

\* the other thread is scheduled: the locals of the two calls change places
Switch ==
    /\ pc' = waiting.pc
    /\ op' = waiting.op
    /\ args' = waiting.args
    /\ cmd' = waiting.cmd
    /\ calls' = waiting.calls
    /\ reply' = waiting.reply
    /\ result' = waiting.result
    /\ waiting' = ThisCall
    /\ UNCHANGED vocab

\* two threads, each calling the functions of the module, interleaved at
\* every step
ThreadsNext ==
    \/ Calls
    \/ RepliesWith(OutcomeTexts)
    \/ TransportFails
    \/ Return
    \/ Switch

ThreadsSpec == Init /\ [][ThreadsNext]_vars

---------------------------------------------------------------------------
(* Properties of the calls                                                 *)

\* the functions that take a simulate parameter
Mutating ==
    { "osd_out", "osd_crush_remove", "osd_pool_set", "osd_set", "osd_unset", "auth_del",
      "osd_rm", "osd_create", "mgr_auth_add", "osd_auth_add", "osd_crush_add", "mgr_fail",
      "mgr_enable_module", "mgr_disable_module" }

\* the functions that read the reply: the pure queries and osd_create
Parsing ==
    { "cluster_health", "osd_pool_get", "osd_tree", "status", "mon_dump", "mon_quorum",
      "mon_status", "version", "osd_pool_quota_get", "osd_create", "auth_get_key",
      "mgr_dump", "mgr_list_modules", "mgr_list_services", "mgr_metadata",
      "mgr_count_metadata", "mgr_versions" }

\* the functions whose result is a number read from the reply
Numeric == {"osd_pool_quota_get", "osd_create"}

Returned == pc \in {"Succeeded", "Failed"}

\* the transport succeeded, with or without texts
Answered == Returned /\ reply.tag = "Ok"

\* the value function o returns for the reply r of the transport
ReplyOf(o, r) ==
    CASE o = "cluster_health" -> cluster_health_reply(r)
      [] o = "osd_pool_get" -> osd_pool_get_reply(r)
      [] o = "osd_tree" -> osd_tree_reply(r)
      [] o = "status" -> status_reply(r)
      [] o = "mon_dump" -> mon_dump_reply(r)
      [] o = "mon_quorum" -> mon_quorum_reply(r)
      [] o = "mon_status" -> mon_status_reply(r)
      [] o = "version" -> version_reply(r)
      [] o = "osd_pool_quota_get" -> osd_pool_quota_get_reply(r)
      [] o = "osd_create" -> osd_create_reply(r)
      [] o = "auth_get_key" -> auth_get_key_reply(r)
      [] o = "mgr_dump" -> mgr_dump_reply(r)
      [] o = "mgr_list_modules" -> mgr_list_modules_reply(r)
      [] o = "mgr_list_services" -> mgr_list_services_reply(r)
      [] o = "mgr_metadata" -> mgr_metadata_reply(r)
      [] o = "mgr_count_metadata" -> mgr_count_metadata_reply(r)
      [] o = "mgr_versions" -> mgr_versions_reply(r)
      [] OTHER -> UnitReply(r)

\* text t has first line f: t is f alone, or starts with f and a line ending
\* (no first line offered holds a line ending)
HasFirstLine(t, f) ==
    \/ f # "" /\ t = f
    \/ \E e \in LineEndings : StartsWith(t, f \o e)

\* the names under which the messages of function o speak of it: the prefix
\* of its command and, for two functions, the spelling their messages use
MessageNames(o) ==
    {cmd.prefix.s}
        \cup (IF o = "osd_pool_quota_get" THEN {"osd pool quota-get"} ELSE {})
        \cup (IF o = "mgr_list_modules" THEN {"mgr ls"} ELSE {})

\* C1: a mutating function called with simulate = true never invokes the
\* transport and returns its placeholder: Ok(()) and, for osd_create, Ok(0).
C1_SimulateNeverDispatches ==
    (op \in Mutating /\ args.simulate) =>
        /\ calls = 0
        /\ pc \in {"Built", "Simulated"}
        /\ pc = "Simulated" =>
              result = IF op = "osd_create" THEN Ok("u64", "0") ELSE OkUnit

C1_Witness ==
    /\ pc = "Simulated"
    /\ op = "osd_create"
    /\ args.id = SomeId(12)
    /\ result = Ok("u64", "0")
    /\ calls = 0

\* C2 (as specified): whenever the transport succeeds with no primary text and
\* a diagnostic text d, the function returns an error whose message is d.
C2_DiagnosticIsTheError ==
    (Answered /\ ~reply.primary.some /\ reply.secondary.some) =>
        result = Err("Error", reply.secondary.v)

\* C3 (as specified): whenever the transport succeeds with neither text, the
\* function returns an error "No response from ceph for <operation>".
C3_NoResponseForm ==
    (Answered /\ ~reply.primary.some /\ ~reply.secondary.some) =>
        /\ result.tag = "Err"
        /\ result.kind = "Error"
        /\ \E n \in MessageNames(op) : result.val = "No response from ceph for " \o n

\* C3 (amended): a reply-reading function given neither text returns an error
\* whose message is fixed by the function and names it, in one of two forms:
\* "No response from ceph for <name>", or "Unable to parse <name> output: "
\* followed by the empty reply "(None, None)"; a unit function returns Ok(()).
C3_NoResponseFixedMessage ==
    (Answered /\ ~reply.primary.some /\ ~reply.secondary.some) =>
        IF op \in Parsing
        THEN /\ result.tag = "Err"
             /\ result.kind = "Error"
             /\ \E n \in MessageNames(op) :
                   \/ result.val = "No response from ceph for " \o n
                   \/ result.val = "Unable to parse " \o n \o " output: (None, None)"
        ELSE result = OkUnit

C3_Witness ==
    /\ pc = "Failed"
    /\ op = "mgr_dump"
    /\ reply = Replied(None, None)
    /\ result = Err("Error", "Unable to parse mgr dump output: (None, None)")

\* C4: a reply-reading function given a primary text of zero lines (the empty
\* text) fails with a message that names the function and ends with the text
\* as {:?} prints it.
C4_EmptyTextIsMalformed ==
    (Answered /\ op \in Parsing /\ reply.primary.some /\ reply.primary.v = "") =>
        /\ pc = "Failed"
        /\ result.kind = "Error"
        /\ \E n \in MessageNames(op) : Contains(result.val, "Unable to parse " \o n)
        /\ EndsWith(result.val, ": " \o DebugStr(reply.primary.v))

C4_Witness ==
    /\ pc = "Failed"
    /\ op = "version"
    /\ reply.primary = Some("")
    /\ result = Err("Error", "Unable to parse version output: \"\"")

\* C5: the result of a reply-reading function depends on the first line of
\* the primary text alone: every text whose first line is f, whatever its
\* line endings and later lines, gives the result the one-line text f gives.
C5_FirstLineOnly ==
    (Answered /\ op \in Parsing /\ reply.primary.some) =>
        \A f \in FirstLines :
            HasFirstLine(reply.primary.v, f) =>
                result = ReplyOf(op, Replied(Some(f \o "\n"), reply.secondary))

C5_Witness ==
    /\ pc = "Succeeded"
    /\ op = "mon_dump"
    /\ reply.primary = Some(SampleMonDump \o "\n" \o "garbage")
    /\ result.kind = "json"

\* a string of one or more decimal digits
IsDigits(s) == s # "" /\ \A i \in 1..Len(s) : Ch(s, i) \in Digits

\* C6 (as specified): a numeric function returns n when the first line is the
\* decimal representation of a u64 n (its digits, as to_string writes them),
\* and a decode error for every other first line.
C6_DecimalOrDecodeError ==
    (Answered /\ op \in Numeric /\ reply.primary.some) =>
        \A f \in FirstLines :
            HasFirstLine(reply.primary.v, f) =>
                IF IsDigits(f) /\ Canonical(f) = f /\ ~Exceeds(f, U64Max)
                THEN result = Ok("u64", f)
                ELSE result.tag = "Err" /\ result.kind = "ParseIntError"

\* the digits of a numeral: a leading "+" is not one of them
DigitsOf(f) == IF StartsWith(f, "+") THEN Tail(f) ELSE f

\* C6 (amended): a numeric function returns n when the first line is a
\* decimal numeral of a u64 n, that is one or more digits (leading zeros
\* allowed) after an optional "+", and a decode error for every other line.
C6_NumeralOrDecodeError ==
    (Answered /\ op \in Numeric /\ reply.primary.some) =>
        \A f \in FirstLines :
            HasFirstLine(reply.primary.v, f) =>
                IF IsDigits(DigitsOf(f)) /\ ~Exceeds(Canonical(DigitsOf(f)), U64Max)
                THEN result = Ok("u64", Canonical(DigitsOf(f)))
                ELSE result.tag = "Err" /\ result.kind = "ParseIntError"

C6_Witness ==
    /\ op = "osd_pool_quota_get"
    /\ reply.primary = Some("18446744073709551616\n")
    /\ result = Err("ParseIntError", "PosOverflow")

\* C7: when the transport fails with error e, the function returns e itself.
C7_TransportErrorUnchanged ==
    (Returned /\ reply.tag = "Err") => (pc = "Failed" /\ result = reply.err)

C7_Witness ==
    /\ pc = "Failed"
    /\ op = "osd_crush_remove"
    /\ reply.tag = "Err"
    /\ result = Err("ApiError", "ENOENT")

\* C8: a call invokes the transport at most once; a pure query and a mutating
\* function with simulate = false have invoked it exactly once when they
\* return, whatever the outcome.
C8_AtMostOneDispatch ==
    /\ calls \in {0, 1}
    /\ (pc \in {"Succeeded", "Failed", "Simulated"} /\ op \notin Mutating) =>
          (calls = 1 /\ pc # "Simulated")
    /\ (pc \in {"Succeeded", "Failed", "Simulated"} /\ op \in Mutating) =>
          (calls = IF args.simulate THEN 0 ELSE 1)

C8_Witness ==
    /\ pc = "Failed"
    /\ op = "osd_tree"
    /\ result.kind = "SerdeJson"
    /\ calls = 1

\* the functions with a force parameter, the field each adds and its value
ForceOps == {"osd_set", "mgr_enable_module"}

ForceField(o) == IF o = "osd_set" THEN "sure" ELSE "force"

ForceValue(o) == IF o = "osd_set" THEN "--yes-i-really-mean-it" ELSE "--force"

\* the descriptor function o builds from arguments a with the given force
ForcedDescriptor(o, a, force) ==
    IF o = "osd_set" THEN osd_set_cmd(a.key, force) ELSE mgr_enable_module_cmd(a.module, force)

\* C11: the descriptor of osd_set and mgr_enable_module has no force field
\* ("sure", "force") when force = false, has it with its fixed string value
\* when force = true, and has the same other fields in both cases.
C11_ForceFieldOnlyWhenForced ==
    (op \in ForceOps /\ pc # "Idle") =>
        /\ ~args.force => ForceField(op) \notin DOMAIN cmd
        /\ args.force =>
              /\ ForceField(op) \in DOMAIN cmd
              /\ cmd[ForceField(op)] = JStr(ForceValue(op))
        /\ DOMAIN cmd \ {ForceField(op)}
              = DOMAIN ForcedDescriptor(op, args, ~args.force) \ {ForceField(op)}
        /\ \A k \in DOMAIN cmd \ {ForceField(op)} :
              cmd[k] = ForcedDescriptor(op, args, ~args.force)[k]

C11_Witness ==
    /\ pc = "Dispatched"
    /\ op = "mgr_enable_module"
    /\ ~args.force
    /\ cmd = [prefix |-> JStr("mgr module enable"), module |-> JStr(args.module)]

\* C12: the "ids" field of the descriptor of osd_out and osd_rm is a list of
\* one element, the string of the decimal digits of osd_id.
C12_IdsIsOneDecimalString ==
    (op \in {"osd_out", "osd_rm"} /\ pc # "Idle") =>
        /\ cmd.ids.t = "arr"
        /\ Len(cmd.ids.items) = 1
        /\ cmd.ids.items[1].t = "str"
        /\ cmd.ids.items[1].s = ToString(args.osd_id)

C12_Witness ==
    /\ pc = "Dispatched"
    /\ op = "osd_rm"
    /\ args.osd_id = 12
    /\ cmd.ids = JArr(<< JStr("12") >>)

\* the functions that return the first line as it is
RawOps == {"osd_pool_get", "status", "version", "auth_get_key"}

\* C13 (as specified): when a decoding function fails on the first line of a
\* primary text, the error is a malformed-response error whose message holds
\* the name of the function and that first line.
C13_DecodeErrorCarriesContext ==
    (Answered /\ op \in Parsing \ RawOps /\ reply.primary.some /\ result.tag = "Err") =>
        \A f \in FirstLines :
            HasFirstLine(reply.primary.v, f) =>
                /\ result.kind = "Error"
                /\ \E n \in MessageNames(op) : Contains(result.val, n)
                /\ Contains(result.val, f)

Terminal == {"Succeeded", "Failed", "Simulated"}

\* a call in a terminal state holds a value, Simulated is the state of a
\* mutating function called with simulate = true, and Succeeded and Failed
\* come after one transport call on a built descriptor
TerminalStates ==
    /\ pc \in Terminal => result.tag \in {"Ok", "Err"}
    /\ pc = "Simulated" => (op \in Mutating /\ args.simulate /\ calls = 0)
    /\ pc \in {"Succeeded", "Failed"} =>
          /\ calls = 1
          /\ "prefix" \in DOMAIN cmd
          /\ reply.tag \in {"Ok", "Err"}
          /\ op \in Mutating => ~args.simulate

\* C14: every call reaches a terminal state (Succeeded, Failed or Simulated)
\* whatever the transport answers, holds a value there and leaves it only by
\* returning; Simulated is reached only by a mutating function with
\* simulate = true, Succeeded and Failed only after the transport was invoked
\* on a built descriptor.
C14_EveryCallTerminates ==
    /\ []TerminalStates
    /\ [][(pc \in Terminal) => (pc' = "Idle")]_vars
    /\ (pc \in {"Built", "Dispatched", "Returned"}) ~> (pc \in Terminal)

C14_Witness ==
    /\ pc = "Failed"
    /\ op = "osd_create"
    /\ ~args.simulate
    /\ reply = Replied(None, Some("permission denied"))
    /\ result.tag = "Err"

\* C15: a function that returns the raw text, given a primary text with a
\* first line, succeeds and returns that line as it is, the empty line of a
\* text that starts with a line ending included.
C15_RawFirstLineUnchanged ==
    (Answered /\ op \in RawOps /\ reply.primary.some) =>
        \A f \in FirstLines :
            HasFirstLine(reply.primary.v, f) => result = Ok("String", f)

C15_Witness ==
    /\ pc = "Succeeded"
    /\ op = "version"
    /\ reply.primary = Some("\r\ngarbage\n")
    /\ result = Ok("String", "")

\* the command name of each function, as the specification lists them
Prefixes ==
    [ cluster_health |-> "health", osd_out |-> "osd out",
      osd_crush_remove |-> "osd crush remove", osd_pool_get |-> "osd pool get",
      osd_pool_set |-> "osd pool set", osd_set |-> "osd set", osd_unset |-> "osd unset",
      osd_tree |-> "osd tree", status |-> "status", mon_dump |-> "mon dump",
      mon_quorum |-> "quorum_status", mon_status |-> "mon_status", version |-> "version",
      osd_pool_quota_get |-> "osd pool get-quota", auth_del |-> "auth del",
      osd_rm |-> "osd rm", osd_create |-> "osd create", mgr_auth_add |-> "auth add",
      osd_auth_add |-> "auth add", auth_get_key |-> "auth get-key",
      osd_crush_add |-> "osd crush add", mgr_dump |-> "mgr dump", mgr_fail |-> "mgr fail" ]

\* C16: every descriptor has a "prefix" string, the one listed for its
\* function whatever the parameters, force, the optional id and simulate are;
\* the functions the list leaves out have one prefix for all their parameters.
C16_PrefixFixedPerOperation ==
    pc # "Idle" =>
        /\ "prefix" \in DOMAIN cmd
        /\ cmd.prefix.t = "str"
        /\ cmd.prefix.s # ""
        /\ op \in DOMAIN Prefixes => cmd.prefix.s = Prefixes[op]
        /\ op = "mgr_enable_module" =>
               \A m \in Modules, f \in BOOLEAN :
                   mgr_enable_module_cmd(m, f).prefix = cmd.prefix
        /\ op = "mgr_disable_module" =>
               \A m \in Modules : mgr_disable_module_cmd(m).prefix = cmd.prefix
        /\ op = "mgr_count_metadata" =>
               \A p \in Properties : mgr_count_metadata_cmd(p).prefix = cmd.prefix

C16_Witness ==
    /\ pc = "Simulated"
    /\ op = "osd_create"
    /\ args.id.some
    /\ "id" \in DOMAIN cmd
    /\ cmd.prefix = JStr("osd create")

\* what function c.op returns for the reply c.reply when no other call is made
AloneResult(c) ==
    IF c.op \in Parsing THEN ReplyOf(c.op, c.reply) ELSE UnitReply(c.reply)

\* the result of call c comes from its own parameters and its own reply
OwnResult(c) ==
    /\ c.pc \in {"Succeeded", "Failed"} => c.calls = 1 /\ c.result = AloneResult(c)
    /\ c.pc = "Simulated" =>
           /\ c.args.simulate
           /\ c.calls = 0
           /\ c.result = IF c.op = "osd_create" THEN Ok("u64", "0") ELSE OkUnit

\* C17: calls share no state: however the steps of two calls interleave, a
\* step of one leaves the locals of the other as they are, and each call
\* returns what it returns when run alone with the same parameters and the
\* same transport outcome.
C17_CallsShareNothing ==
    /\ [](OwnResult(ThisCall) /\ OwnResult(waiting))
    /\ [][(waiting' # waiting) => Switch]_vars

C17_Witness ==
    /\ pc = "Failed"
    /\ op = "osd_pool_set"
    /\ reply = TransportErr(Err("ApiError", "ENOENT"))
    /\ result = Err("ApiError", "ENOENT")
    /\ waiting.pc = "Returned"
    /\ waiting.op = "version"
    /\ waiting.reply = Replied(Some("x\n"), None)

\* C18: a mutating function that returns nothing, called with simulate =
\* false, succeeds whenever the transport call succeeds, whatever the two
\* texts are, a diagnostic without primary text included; when it fails, its
\* error is the error of the transport.
C18_UnitSuccessIgnoresTexts ==
    (Returned /\ op \in Mutating \ {"osd_create"}) =>
        /\ ~args.simulate
        /\ reply.tag = "Ok" => result = OkUnit
        /\ result.tag = "Err" => reply.tag = "Err" /\ result = reply.err

C18_Witness ==
    /\ pc = "Succeeded"
    /\ op = "auth_del"
    /\ ~args.simulate
    /\ reply = Replied(None, Some("osd.12 does not exist"))
    /\ result = OkUnit

\* a JSON string literal without escapes, and the string it stands for
Quoted(f) ==
    /\ Len(f) >= 2
    /\ Ch(f, 1) = "\""
    /\ Ch(f, Len(f)) = "\""
    /\ \A i \in 2..(Len(f) - 1) : Ch(f, i) \notin {"\"", "\\"}

Unquoted(f) == SubSeq(f, 2, Len(f) - 1)

\* C19: mon_quorum decodes the first line of the primary text as a JSON
\* string: a string literal gives the string it stands for, and any other
\* first line, a well-formed JSON object included, gives a decode error.
C19_MonQuorumDecodesString ==
    (Answered /\ op = "mon_quorum" /\ reply.primary.some) =>
        \A f \in FirstLines :
            HasFirstLine(reply.primary.v, f) =>
                IF Quoted(f) THEN result = Ok("String", Unquoted(f))
                ELSE result.tag = "Err" /\ result.kind = "SerdeJson"

C19_Witness ==
    /\ pc = "Failed"
    /\ op = "mon_quorum"
    /\ reply.primary = Some(SampleMonStatus \o "\n")
    /\ result = Err("SerdeJson", "data")

---------------------------------------------------------------------------
(* Properties of the wire vocabulary                                       *)

\* C9: for OsdOption and PoolOption no two variants share a token, the token
\* written for a variant reads back as that variant, and any other token,
\* such as the underscore form of a hyphenated one, does not.
C9_TokenRoundTrip ==
    vocab.enum \in Serializable =>
        LET enum == EnumOf(vocab.enum)
            token == Serialize(enum, vocab.variant)
        IN /\ \A w \in Variants(enum) : Serialize(enum, w) = token => w = vocab.variant
           /\ vocab.wire.some => vocab.wire.v = token
           /\ vocab.token.some =>
                 (vocab.back = Some(vocab.variant)) = (vocab.token.v = token)

C9_Witness ==
    /\ vocab.enum = "OsdOption"
    /\ vocab.variant = "NoDeepScrub"
    /\ vocab.wire = Some("nodeep-scrub")
    /\ vocab.token = Some("nodeep-scrub")
    /\ vocab.back = Some("NoDeepScrub")

\* C10: for every variant of the four enumerations the serde rename, the
\* Display output and the AsRef<str> value are the same string.
C10_ThreeMappingsAgree ==
    /\ vocab.shown.some => vocab.shown.v = Rename(EnumOf(vocab.enum), vocab.variant)
    /\ vocab.ref.some => vocab.ref.v = Rename(EnumOf(vocab.enum), vocab.variant)

C10_Witness ==
    /\ vocab.enum = "PoolOption"
    /\ vocab.variant = "CacheMinEvictAge"
    /\ vocab.shown = Some("cachem_min_evict_age")
    /\ vocab.ref = Some("cachem_min_evict_age")

=============================================================================
